---------------------------- MODULE Spec2Model ----------------------------
(***************************************************************************)
(* A state-machine model of study_buddy_app.py: a Streamlit page that      *)
(* saves notes to a per-user Firestore collection, lists the ten most      *)
(* recent ones with a Load button each, and returns a placeholder quiz.    *)
(*                                                                         *)
(* Streamlit executes the script from top to bottom once per user event    *)
(* (a "run").  One action of the model is one user event together with     *)
(* every run it causes, the run started by st.rerun() included.            *)
(*                                                                         *)
(* Text is modelled as a sequence of one-character strings, so that        *)
(* str.strip(), slicing and len() are computed, not assumed.               *)
(*                                                                         *)
(* The @st.cache_data memo around generate_quiz_content is not a variable: *)
(* the function is deterministic, so the memo never changes a result.      *)
(*                                                                         *)
(* The libraries are the environment.  Firestore: a write is accepted or   *)
(* raises (nothing is stored then), a query returns or raises, and the     *)
(* server timestamps of one session's writes strictly increase.  Firebase: *)
(* set-up and token verification succeed or raise.  Streamlit: a second    *)
(* widget with a key already used in the run raises an Exception,          *)
(* st.rerun() and st.stop() end the run without one, and the text area     *)
(* shows its value argument when that was changed by the script.           *)
(***************************************************************************)
EXTENDS Integers, Sequences, FiniteSets, TLC

VARIABLES
    phase,          \* "boot" (process not started), "running", "halted" (st.stop())
    token,          \* INITIAL_AUTH_TOKEN (a deployment secret), NoToken when absent
    app,            \* whether firebase_admin._apps holds the default app
    db,             \* TRUE: a Firestore client; FALSE: None
    USER_ID,        \* result of authenticate_user()
    bootMsgs,       \* messages reported by the two cached set-up functions
    session_state,  \* st.session_state: a dict, empty until main() fills it
    store,          \* the document store: collection path -> documents, in creation order
    now,            \* the store's clock, in ticks; SERVER_TIMESTAMP reads it
    messages,       \* messages displayed by main() in the latest run
    notes_list,     \* result of the latest saved-notes query (<<>> if it raised)
    fetchOk,        \* whether the latest saved-notes query returned
    rendered,       \* notes whose Load button the latest run put on the page
    lastEvent,      \* the user event the latest action handled
    runs,           \* number of script runs the latest action took
    clicked,        \* the note whose Load button returned True in the latest action
    escaped,        \* whether an exception left main() in the latest run
    pageRendered,   \* whether main() has run in this process
    restarts        \* number of process restarts so far

vars == <<phase, token, app, db, USER_ID, bootMsgs, session_state, store, now, messages,
          notes_list, fetchOk, rendered, lastEvent, runs, clicked, escaped,
          pageRendered, restarts>>

---------------------------------------------------------------------------
(* Bounds of the exploration *)

\* Cap on the documents written in a behaviour of Spec.
MaxNotes == 2
\* Cap on the documents written in a behaviour of SpecLong.
MaxNotesLong == 12
\* Cap on process restarts.
MaxRestarts == 1
\* Clock ticks per second: timestamps are finer than the whole-second widget key.
TicksPerSec == 2
\* Longest argument of the direct calls in SpecGen.
MaxLen == 4

(* Program constants *)

\* notes_content.strip()[:50] and len(...) > 50
TitleLen == 50
\* .limit(10)
QueryLimit == 10

---------------------------------------------------------------------------
(* Text *)

Min(a, b) == IF a < b THEN a ELSE b

Rep(c, n) == [i \in 1..n |-> c]

\* Characters str.strip() removes.
IsSpace(c) == c \in {" ", "\n", "\t"}

RECURSIVE LStrip(_)
LStrip(s) == IF s # <<>> /\ IsSpace(Head(s)) THEN LStrip(Tail(s)) ELSE s

RECURSIVE RStrip(_)
RStrip(s) == IF s # <<>> /\ IsSpace(s[Len(s)]) THEN RStrip(SubSeq(s, 1, Len(s) - 1)) ELSE s

\* str.strip()
Strip(s) == RStrip(LStrip(s))

\* s[:n]
Slice(s, n) == SubSeq(s, 1, Min(n, Len(s)))

Ellipsis == <<".", ".", ".">>

\* The title expression of save_note, applied to the stripped content.
\* Variant: the ellipsis from 50 characters on.
TitleOffByOne(c) == Slice(c, TitleLen) \o (IF Len(c) >= TitleLen THEN Ellipsis ELSE <<>>)
\* As written.
Title(c) == Slice(c, TitleLen) \o (IF Len(c) > TitleLen THEN Ellipsis ELSE <<>>)

\* Texts the user types in Spec: a blank one, one of 50 characters between
\* whitespace, one of 51 characters with a space inside and whitespace around.
Blank == <<" ", "\n">>
Exact == <<"\n">> \o Rep("a", TitleLen) \o <<" ">>
Long == <<" ">> \o Rep("b", TitleLen - 1) \o <<" ", "c", "\n", "\t">>
Inputs == {Blank, Exact, Long}

\* A short text with a space inside and whitespace around.
Short == <<" ", "a", " ", "b", "\n">>

\* Texts the user types in SpecLong.
LongInputs == {Short}

\* Arguments of the direct calls in SpecGen: every text of at most MaxLen characters.
Alphabet == {" ", "\n", "a"}
GenInputs == UNION {[1..n -> Alphabet] : n \in 0..MaxLen}

---------------------------------------------------------------------------
(* Set-up: lines 15-61 *)

NoToken == "None"
Tokens == {NoToken, "tokA"}
APP_ID == "default-app-id"
DefaultUser == "streamlit-anon-user"
AuthFailed == "auth-failed"
Users == {DefaultUser, "uidA", AuthFailed}

\* auth.verify_id_token(t)['uid'] when it returns.
UidOf(t) == "uidA"

MsgFirebase == "Error initializing Firebase. Check configuration."
MsgAuthFailed == "Authentication failed."
MsgNoToken == "No initial auth token found. Using a default user ID."

\* initialize_firebase(): how is "ok", "init_raises" (json.loads, Certificate or
\* initialize_app raises: no app, no client) or "client_raises" (firestore.client()
\* raises: the app is initialised, there is no client).
InitOutcomes == {"ok", "init_raises", "client_raises"}
initialize_firebase(how) ==
    [app |-> how # "init_raises",
     db |-> how = "ok",
     msgs |-> IF how = "ok" THEN {} ELSE {MsgFirebase}]

\* authenticate_user(): verify_id_token raises without a default app, and for a
\* token it rejects (verifyOk is whether it accepts the token).
authenticate_user(t, a, verifyOk) ==
    IF t # NoToken
    THEN IF a /\ verifyOk
         THEN [uid |-> UidOf(t), msgs |-> {}]
         ELSE [uid |-> AuthFailed, msgs |-> {MsgAuthFailed}]
    ELSE [uid |-> DefaultUser, msgs |-> {MsgNoToken}]

\* if USER_ID == "auth-failed": st.stop()
\* Variant: no st.stop().
HaltsNever(uid) == FALSE
\* As written.
Halts(uid) == uid = AuthFailed

NOTES_COLLECTION_PATH(uid) == <<"artifacts", APP_ID, "users", uid, "study_notes">>
Paths == {NOTES_COLLECTION_PATH(u) : u \in Users}

---------------------------------------------------------------------------
(* save_note: lines 65-82 *)

MsgCannotSave == "Cannot save empty notes."
MsgSaved == "Notes saved successfully!"
MsgSaveError == "Error saving notes"

\* The document written by doc_ref.set(...); ts is the value of SERVER_TIMESTAMP.
\* Variant: the content stored as typed.
NoteDocRawContent(raw, uid, ts) ==
    [content |-> raw, timestamp |-> ts, title |-> Title(Strip(raw)), user_id |-> uid]
\* As written.
NoteDoc(raw, uid, ts) ==
    [content |-> Strip(raw), timestamp |-> ts, title |-> Title(Strip(raw)), user_id |-> uid]

\* The guard of line 67.
\* Variant: no test of the content.
SaveRejectedOnlyNoDb(d, raw) == ~d
\* As written.
SaveRejected(d, raw) == ~d \/ Strip(raw) = <<>>

\* save_note(notes_content).  wOk: the write is accepted by the store (set() returns);
\* gap: ticks from the previous write to this one.
\* Variant: document() with a fixed id, so that set() replaces the document.
save_note_overwrite(d, uid, st, clk, raw, wOk, gap) ==
    IF SaveRejected(d, raw)
    THEN [store |-> st, now |-> clk, msgs |-> {MsgCannotSave}]
    ELSE IF ~wOk
    THEN [store |-> st, now |-> clk, msgs |-> {MsgSaveError}]
    ELSE [store |-> [st EXCEPT ![NOTES_COLLECTION_PATH(uid)] =
                                    <<NoteDoc(raw, uid, clk + gap)>>],
          now |-> clk + gap,
          msgs |-> {MsgSaved}]
\* As written: document() draws a fresh id, so that set() creates a document.
save_note(d, uid, st, clk, raw, wOk, gap) ==
    IF SaveRejected(d, raw)
    THEN [store |-> st, now |-> clk, msgs |-> {MsgCannotSave}]
    ELSE IF ~wOk
    THEN [store |-> st, now |-> clk, msgs |-> {MsgSaveError}]
    ELSE [store |-> [st EXCEPT ![NOTES_COLLECTION_PATH(uid)] =
                                    Append(@, NoteDoc(raw, uid, clk + gap))],
          now |-> clk + gap,
          msgs |-> {MsgSaved}]

---------------------------------------------------------------------------
(* generate_quiz_content: lines 86-134 *)

NoneValue == [none |-> TRUE]
GenError == [error |-> "Notes required for generation."]
Placeholder ==
    [quiz |-> << [question |-> "Q1", correctAnswer |-> "B. Fast development using only Python"],
                 [question |-> "Q2", correctAnswer |-> "B. Firestore database"] >>,
     flashcards |-> << [term |-> "Streamlit"], [term |-> "Firestore"] >>]

\* Variant: no test of the argument.
generate_no_check(raw) == Placeholder
\* As written.
generate_quiz_content(raw) == IF Strip(raw) = <<>> THEN GenError ELSE Placeholder

---------------------------------------------------------------------------
(* The saved-notes query and list: lines 166-187 *)

MsgNoNotes == "No notes saved yet."
MsgRetrieveError == "Error retrieving notes"

NoNote == [none |-> TRUE]
NoKey == -1

\* The documents of st at the indices S, newest first: order_by('timestamp', DESCENDING).
RECURSIVE OrderDescFrom(_, _)
OrderDescFrom(coll, S) ==
    IF S = {} THEN <<>>
    ELSE LET i == CHOOSE k \in S : \A j \in S : coll[j].timestamp <= coll[k].timestamp
         IN <<coll[i]>> \o OrderDescFrom(coll, S \ {i})

OrderByTimestampDesc(coll) == OrderDescFrom(coll, DOMAIN coll)

\* .limit(n)
Limit(list, n) == SubSeq(list, 1, Min(n, Len(list)))

\* db.collection(NOTES_COLLECTION_PATH).order_by(...).limit(10).stream(), as a list.
\* Variant: no limit.
QueryUnlimited(st, uid) == OrderByTimestampDesc(st[NOTES_COLLECTION_PATH(uid)])
\* As written.
Query(st, uid) == Limit(OrderByTimestampDesc(st[NOTES_COLLECTION_PATH(uid)]), QueryLimit)

\* note.get('timestamp').strftime('%Y%m%d%H%M%S'): the timestamp cut to whole seconds.
WidgetKey(note) == note.timestamp \div TicksPerSec

\* Least element of a set of indices, 0 if it is empty.
First(S) == IF S = {} THEN 0 ELSE CHOOSE i \in S : \A j \in S : i <= j

\* Index of the first note of list whose key an earlier note already has (0: none):
\* there st.button raises DuplicateWidgetID.
FirstDup(list) ==
    First({i \in DOMAIN list : \E j \in 1..(i - 1) : WidgetKey(list[j]) = WidgetKey(list[i])})

\* Index of the first note of list whose button has key k (0: none).
FirstHit(list, k) == First({i \in DOMAIN list : WidgetKey(list[i]) = k})

\* Lines 175-184, for a returned list: dup and hit are FirstDup and FirstHit of it.
\* kind is how the block ends: "return", "raise" (an Exception) or "rerun"
\* (st.rerun(), which is no Exception).
RenderList(list, dup, hit) ==
    IF list = <<>>
    THEN [kind |-> "return", msgs |-> {MsgNoNotes}, list |-> list, fetchOk |-> TRUE,
          rendered |-> <<>>, load |-> NoNote]
    ELSE IF hit # 0 /\ (dup = 0 \/ hit < dup)
    THEN [kind |-> "rerun", msgs |-> {}, list |-> list, fetchOk |-> TRUE,
          rendered |-> SubSeq(list, 1, hit), load |-> list[hit]]
    ELSE IF dup # 0
    THEN [kind |-> "raise", msgs |-> {}, list |-> list, fetchOk |-> TRUE,
          rendered |-> SubSeq(list, 1, dup - 1), load |-> NoNote]
    ELSE [kind |-> "return", msgs |-> {}, list |-> list, fetchOk |-> TRUE,
          rendered |-> list, load |-> NoNote]

\* The loop of lines 180-184: clickKey is the key of the Load button the user
\* clicked, NoKey if none.
RenderNotes(list, clickKey) == RenderList(list, FirstDup(list), FirstHit(list, clickKey))

\* The body of the try block.  rOk: the query returns.  With db None, db.collection
\* raises AttributeError.
display_saved_notes_body(d, uid, st, rOk, clickKey) ==
    IF ~d \/ ~rOk
    THEN [kind |-> "raise", msgs |-> {}, list |-> <<>>, fetchOk |-> FALSE,
          rendered |-> <<>>, load |-> NoNote]
    ELSE RenderNotes(Query(st, uid), clickKey)

\* except Exception as e: st.error(...)
ExceptException(b) ==
    IF b.kind = "raise" THEN [b EXCEPT !.kind = "return", !.msgs = {MsgRetrieveError}] ELSE b

\* display_saved_notes()
\* Variant: no except branch.
display_saved_notes_no_except(d, uid, st, rOk, clickKey) ==
    display_saved_notes_body(d, uid, st, rOk, clickKey)
\* As written.
display_saved_notes(d, uid, st, rOk, clickKey) ==
    ExceptException(display_saved_notes_body(d, uid, st, rOk, clickKey))

---------------------------------------------------------------------------
(* main: lines 191-254 *)

TabNotes == "Notes & Input"
TabQuiz == "Generated Quiz/Flashcards"
MsgEnterNotes == "Please enter some notes first."

NoSession == <<>>

\* Lines 205-210: a key is set only if it is absent.
SessionDefaults(ss) ==
    [notes_input |-> IF "notes_input" \in DOMAIN ss THEN ss.notes_input ELSE <<>>,
     active_tab |-> IF "active_tab" \in DOMAIN ss THEN ss.active_tab ELSE TabNotes,
     quiz_result |-> IF "quiz_result" \in DOMAIN ss THEN ss.quiz_result ELSE NoneValue]

\* User events: nothing (a plain re-run), text typed into the text area, a click
\* on Save, on Generate, or on the Load button with a given key.  The last three
\* are not widget events: a process start, a restart, a direct call.
BootEvent == [kind |-> "boot", text |-> <<>>, key |-> NoKey]
RestartEvent == [kind |-> "restart", text |-> <<>>, key |-> NoKey]
CallEvent(s) == [kind |-> "call", text |-> s, key |-> NoKey]
NoEvent == [kind |-> "refresh", text |-> <<>>, key |-> NoKey]
TypeEvent(s) == [kind |-> "type", text |-> s, key |-> NoKey]
SaveEvent == [kind |-> "save", text |-> <<>>, key |-> NoKey]
GenerateEvent == [kind |-> "generate", text |-> <<>>, key |-> NoKey]
LoadEvent(k) == [kind |-> "load", text |-> <<>>, key |-> k]

\* Lines 219-225: the text area returns the typed text, or else its value argument,
\* st.session_state.notes_input; the result is stored back.
TextArea(ss, ev) ==
    [ss EXCEPT !.notes_input = IF ev.kind = "type" THEN ev.text ELSE ss.notes_input]

\* Lines 229-231: the Save button.
SaveButton(ss, d, uid, st, clk, ev, wOk, gap) ==
    IF ev.kind = "save"
    THEN save_note(d, uid, st, clk, ss.notes_input, wOk, gap)
    ELSE [store |-> st, now |-> clk, msgs |-> {}]

\* Lines 238-240: what a click on Generate does to the session before st.rerun().
GenerateHandler(ss) ==
    [ss EXCEPT !.quiz_result = generate_quiz_content(ss.notes_input), !.active_tab = TabQuiz]

\* Lines 182-183: what a Load button that returned True does to the session.
\* Variant: the title is loaded.
LoadTitle(ss, note) == [ss EXCEPT !.notes_input = note.title, !.active_tab = TabNotes]
\* As written.
LoadHandler(ss, note) == [ss EXCEPT !.notes_input = note.content, !.active_tab = TabNotes]

\* Line 236.
GenerateWarning(ev) == IF ev.kind = "generate" THEN {MsgEnterNotes} ELSE {}

\* The end of a run that reached display_saved_notes(): sv is what the Save button
\* did, disp what display_saved_notes() did.
EndOfRun(ss, sv, ev, disp) ==
    [kind |-> disp.kind,
     ss |-> IF disp.kind = "rerun" THEN LoadHandler(ss, disp.load) ELSE ss,
     store |-> sv.store, now |-> sv.now,
     msgs |-> sv.msgs \cup GenerateWarning(ev) \cup disp.msgs,
     list |-> disp.list, fetchOk |-> disp.fetchOk,
     rendered |-> disp.rendered, load |-> disp.load, runs |-> 1]

\* Line 245, after the buttons.
ListAfterSave(ss, sv, d, uid, ev, rOk) ==
    EndOfRun(ss, sv, ev, display_saved_notes(d, uid, sv.store, rOk, ev.key))

\* Lines 227-245, with the session as line 225 leaves it.
Buttons(ss, d, uid, st, clk, ev, wOk, rOk, gap) ==
    IF ev.kind = "generate" /\ Strip(ss.notes_input) # <<>>
    THEN [kind |-> "rerun", ss |-> GenerateHandler(ss),
          store |-> st, now |-> clk, msgs |-> {}, list |-> <<>>,
          fetchOk |-> FALSE, rendered |-> <<>>, load |-> NoNote, runs |-> 1]
    ELSE ListAfterSave(ss, SaveButton(ss, d, uid, st, clk, ev, wOk, gap), d, uid, ev, rOk)

\* One run of main().
main(ss, d, uid, st, clk, ev, wOk, rOk, gap) ==
    Buttons(TextArea(SessionDefaults(ss), ev), d, uid, st, clk, ev, wOk, rOk, gap)

\* The run that follows a run r1 which ended in st.rerun() (rOk2: its query
\* returns).  The first run's output is discarded by the re-run; the Load button
\* that returned True in it is kept in load.
Rerun(r1, d, uid, rOk2) ==
    IF r1.kind = "rerun"
    THEN [main(r1.ss, d, uid, r1.store, r1.now, NoEvent, FALSE, rOk2, 1)
             EXCEPT !.load = r1.load, !.runs = 2]
    ELSE r1

\* A run and the run its st.rerun() starts, if any.
RunToEnd(ss, d, uid, st, clk, ev, wOk, rOk, rOk2, gap) ==
    Rerun(main(ss, d, uid, st, clk, ev, wOk, rOk, gap), d, uid, rOk2)

RECURSIVE SumLen(_, _)
SumLen(st, S) ==
    IF S = {} THEN 0 ELSE LET p == CHOOSE q \in S : TRUE IN Len(st[p]) + SumLen(st, S \ {p})

\* Number of documents in the store.
TotalNotes(st) == SumLen(st, DOMAIN st)

---------------------------------------------------------------------------
(* Actions *)

NoUser == "unset"
Gaps == {1, TicksPerSec}
LongGaps == {TicksPerSec}

\* The state a finished run leaves behind.
Finish(r, ev) ==
    /\ session_state' = r.ss
    /\ store' = r.store
    /\ now' = r.now
    /\ messages' = r.msgs
    /\ notes_list' = r.list
    /\ fetchOk' = r.fetchOk
    /\ rendered' = r.rendered
    /\ clicked' = r.load
    /\ escaped' = (r.kind = "raise")
    /\ lastEvent' = ev
    /\ runs' = r.runs
    /\ pageRendered' = TRUE

\* The process starts and the script runs for the first time: initialize_firebase(),
\* authenticate_user(), the st.stop() test and, past it, main().
Boot ==
    /\ phase = "boot"
    /\ \E how \in InitOutcomes, verifyOk, rOk \in BOOLEAN :
         LET f == initialize_firebase(how)
             a == authenticate_user(token, f.app, verifyOk) IN
         /\ app' = f.app
         /\ db' = f.db
         /\ USER_ID' = a.uid
         /\ bootMsgs' = f.msgs \cup a.msgs
         /\ IF Halts(a.uid)
            THEN /\ phase' = "halted"
                 /\ lastEvent' = BootEvent
                 /\ runs' = 1
                 /\ UNCHANGED <<session_state, store, now, messages, notes_list, fetchOk,
                                rendered, clicked, escaped, pageRendered>>
            ELSE /\ phase' = "running"
                 /\ \E r \in {RunToEnd(session_state, f.db, a.uid, store, now, NoEvent,
                                        FALSE, rOk, rOk, 1)} : Finish(r, BootEvent)
    /\ UNCHANGED <<token, restarts>>

\* A re-run of the halted script: the cached USER_ID stops it again at line 58.
RerunHalted ==
    /\ phase = "halted"
    /\ lastEvent' = NoEvent
    /\ runs' = 1
    /\ UNCHANGED <<phase, token, app, db, USER_ID, bootMsgs, session_state, store, now, messages,
                   notes_list, fetchOk, rendered, clicked, escaped, pageRendered, restarts>>

\* A re-run with no widget event (a page refresh keeps nothing but the store).
Refresh ==
    /\ phase = "running"
    /\ \E rOk \in BOOLEAN :
         \E r \in {RunToEnd(session_state, db, USER_ID, store, now, NoEvent,
                            FALSE, rOk, rOk, 1)} : Finish(r, NoEvent)
    /\ UNCHANGED <<phase, token, app, db, USER_ID, bootMsgs, restarts>>

\* The user replaces the text of the text area by s.
TypeText(s) ==
    /\ phase = "running"
    /\ s # SessionDefaults(session_state).notes_input
    /\ \E rOk \in BOOLEAN :
         \E r \in {RunToEnd(session_state, db, USER_ID, store, now, TypeEvent(s),
                            FALSE, rOk, rOk, 1)} : Finish(r, TypeEvent(s))
    /\ UNCHANGED <<phase, token, app, db, USER_ID, bootMsgs, restarts>>

\* The user clicks "Save Notes to Firestore".
SaveClick(cap, gaps) ==
    /\ phase = "running"
    /\ TotalNotes(store) < cap
    /\ \E wOk, rOk \in BOOLEAN, gap \in gaps :
         \E r \in {RunToEnd(session_state, db, USER_ID, store, now, SaveEvent,
                            wOk, rOk, rOk, gap)} : Finish(r, SaveEvent)
    /\ UNCHANGED <<phase, token, app, db, USER_ID, bootMsgs, restarts>>

\* The user clicks "Generate Quiz & Flashcards (AI)".
GenerateClick ==
    /\ phase = "running"
    /\ \E rOk \in BOOLEAN :
         \E r \in {RunToEnd(session_state, db, USER_ID, store, now, GenerateEvent,
                            FALSE, rOk, rOk, 1)} : Finish(r, GenerateEvent)
    /\ UNCHANGED <<phase, token, app, db, USER_ID, bootMsgs, restarts>>

\* The user clicks one of the Load buttons on the page.
LoadClick ==
    /\ phase = "running"
    /\ \E i \in DOMAIN rendered, rOk, rOk2 \in BOOLEAN :
         \E r \in {RunToEnd(session_state, db, USER_ID, store, now,
                            LoadEvent(WidgetKey(rendered[i])), FALSE, rOk, rOk2, 1)} :
            Finish(r, LoadEvent(WidgetKey(rendered[i])))
    /\ UNCHANGED <<phase, token, app, db, USER_ID, bootMsgs, restarts>>

\* The server process is restarted, possibly with another token in its secrets.
\* The store keeps its documents; everything cached or per-session is gone.
Restart(tokens) ==
    /\ phase \in {"running", "halted"}
    /\ restarts < MaxRestarts
    /\ restarts' = restarts + 1
    /\ phase' = "boot"
    /\ token' \in tokens
    /\ app' = FALSE
    /\ db' = FALSE
    /\ USER_ID' = NoUser
    /\ bootMsgs' = {}
    /\ session_state' = NoSession
    /\ messages' = {}
    /\ notes_list' = <<>>
    /\ fetchOk' = FALSE
    /\ rendered' = <<>>
    /\ clicked' = NoNote
    /\ escaped' = FALSE
    /\ pageRendered' = FALSE
    /\ lastEvent' = RestartEvent
    /\ runs' = 0
    /\ UNCHANGED <<store, now>>

\* A direct call generate_quiz_content(s), as a test makes it: the argument and the
\* return value are kept where main() keeps them.
CallGenerate(s) ==
    /\ session_state' = [SessionDefaults(session_state) EXCEPT
                            !.notes_input = s, !.quiz_result = generate_quiz_content(s)]
    /\ lastEvent' = CallEvent(s)
    /\ UNCHANGED <<phase, token, app, db, USER_ID, bootMsgs, store, now, messages, notes_list,
                   fetchOk, rendered, runs, clicked, escaped, pageRendered, restarts>>

InitWith(tokens) ==
    /\ phase = "boot"
    /\ token \in tokens
    /\ app = FALSE
    /\ db = FALSE
    /\ USER_ID = NoUser
    /\ bootMsgs = {}
    /\ session_state = NoSession
    /\ store = [p \in Paths |-> <<>>]
    /\ now = 0
    /\ messages = {}
    /\ notes_list = <<>>
    /\ fetchOk = FALSE
    /\ rendered = <<>>
    /\ lastEvent = RestartEvent
    /\ runs = 0
    /\ clicked = NoNote
    /\ escaped = FALSE
    /\ pageRendered = FALSE
    /\ restarts = 0

Init == InitWith(Tokens)

Next ==
    \/ Boot
    \/ RerunHalted
    \/ Refresh
    \/ \E s \in Inputs : TypeText(s)
    \/ SaveClick(MaxNotes, Gaps)
    \/ GenerateClick
    \/ LoadClick
    \/ Restart({token})

\* Every timing and every text, few documents, one deployment: the token in the
\* secrets stays what it is across restarts.
Spec == Init /\ [][Next]_vars

NextLong ==
    \/ Boot
    \/ RerunHalted
    \/ Refresh
    \/ \E s \in LongInputs : TypeText(s)
    \/ SaveClick(MaxNotesLong, LongGaps)
    \/ LoadClick
    \/ Restart(Tokens)

\* Long histories: more documents than the query's limit, one text, saves a second
\* apart, and restarts that change the token, so that several users' collections fill.
SpecLong == Init /\ [][NextLong]_vars

NextGen == \E s \in GenInputs : CallGenerate(s)

InitGen == InitWith({NoToken})

\* Direct calls of generate_quiz_content with every short text.
SpecGen == InitGen /\ [][NextGen]_vars

---------------------------------------------------------------------------
(* Properties *)

\* What the coming run's text area returns when nothing is typed.
CurrentInput == SessionDefaults(session_state).notes_input

\* The current user's collection.
MyNotes == store[NOTES_COLLECTION_PATH(USER_ID)]
MyNotesNext == store'[NOTES_COLLECTION_PATH(USER_ID)]

\* A text with nothing but whitespace in it (the empty text included).
AllSpace(s) == \A i \in DOMAIN s : IsSpace(s[i])

\* c is s from its first to its last character that is not whitespace.
IsStripOf(c, s) ==
    LET NS == {i \in DOMAIN s : ~IsSpace(s[i])}
    IN IF NS = {}
       THEN c = <<>>
       ELSE c = SubSeq(s, CHOOSE i \in NS : \A j \in NS : i <= j,
                          CHOOSE i \in NS : \A j \in NS : j <= i)

\* A click on Save whose write the store accepted.
AcceptedSave ==
    /\ lastEvent'.kind = "save"
    /\ db
    /\ ~AllSpace(CurrentInput)
    /\ MsgSaveError \notin messages'

\* C1: with the store available, saving content that is not blank adds exactly one
\* record to the current user's collection and to no other; the record's content is
\* the input without its surrounding whitespace and its user_id is USER_ID.
C1_SaveAddsOneRecord ==
    [][AcceptedSave =>
         /\ Len(MyNotesNext) = Len(MyNotes) + 1
         /\ SubSeq(MyNotesNext, 1, Len(MyNotes)) = MyNotes
         /\ IsStripOf(MyNotesNext[Len(MyNotesNext)].content, CurrentInput)
         /\ MyNotesNext[Len(MyNotesNext)].user_id = USER_ID
         /\ \A p \in Paths \ {NOTES_COLLECTION_PATH(USER_ID)} : store'[p] = store[p]
         /\ MsgSaved \in messages']_vars

\* A padded text was saved: the record holds it without the padding.
C1_Witness ==
    /\ lastEvent.kind = "save"
    /\ MsgSaved \in messages
    /\ session_state.notes_input = Long
    /\ Len(MyNotes) = 1
    /\ MyNotes[1].content = Rep("b", TitleLen - 1) \o <<" ", "c">>

\* The title the data model prescribes for a content.
IsTitleOf(ttl, c) ==
    IF Len(c) <= TitleLen
    THEN ttl = c
    ELSE /\ Len(ttl) = TitleLen + 3
         /\ \A i \in 1..TitleLen : ttl[i] = c[i]
         /\ \A i \in (TitleLen + 1)..(TitleLen + 3) : ttl[i] = "."

AllNotes == UNION {{store[p][i] : i \in DOMAIN store[p]} : p \in Paths}

\* C2: every stored record's title is its own content if that has at most 50
\* characters, and else the content's first 50 characters followed by "...".
C2_TitleIsTruncatedContent == \A n \in AllNotes : IsTitleOf(n.title, n.content)

\* A 50-character note and a 51-character note are both stored.
C2_Witness ==
    /\ \E n \in AllNotes : Len(n.content) = TitleLen /\ Len(n.title) = TitleLen
    /\ \E n \in AllNotes : Len(n.content) = TitleLen + 1 /\ Len(n.title) = TitleLen + 3

\* C3: a click on Save with empty or blank content shows a message and leaves the
\* store as it was; no stored note ever has empty content.
C3_BlankSaveRejected ==
    /\ [](\A n \in AllNotes : n.content # <<>>)
    /\ [][(lastEvent'.kind = "save" /\ AllSpace(CurrentInput)) =>
            (store' = store /\ MsgCannotSave \in messages')]_vars

\* A blank text was submitted to an available store.
C3_Witness ==
    /\ lastEvent.kind = "save"
    /\ db
    /\ session_state.notes_input = Blank
    /\ MsgCannotSave \in messages

\* C4: a query that returns gives min(n, 10) notes of the user's n, each a document
\* of the user's own collection and none twice, newest first, and no document left
\* out is newer than one returned.
C4_FetchNewestTen ==
    fetchOk =>
        /\ Len(notes_list) = Min(Len(MyNotes), QueryLimit)
        /\ \A i, j \in DOMAIN notes_list :
              i < j => notes_list[i].timestamp >= notes_list[j].timestamp
        /\ \A i \in DOMAIN notes_list : \E k \in DOMAIN MyNotes : MyNotes[k] = notes_list[i]
        /\ \A k \in DOMAIN MyNotes :
              Cardinality({i \in DOMAIN notes_list : notes_list[i] = MyNotes[k]})
                 <= Cardinality({m \in DOMAIN MyNotes : MyNotes[m] = MyNotes[k]})
        /\ \A k \in DOMAIN MyNotes :
              (\A i \in DOMAIN notes_list : notes_list[i] # MyNotes[k]) =>
                 \A i \in DOMAIN notes_list : MyNotes[k].timestamp <= notes_list[i].timestamp
        /\ \A i \in DOMAIN notes_list : notes_list[i].user_id = USER_ID

\* Eleven notes of the user and one of another user are stored; ten are returned.
C4_Witness ==
    /\ fetchOk
    /\ Len(MyNotes) = QueryLimit + 1
    /\ Len(notes_list) = QueryLimit
    /\ \E p \in Paths \ {NOTES_COLLECTION_PATH(USER_ID)} : store[p] # <<>>

\* C5: in every step each collection keeps the documents it had, unchanged and in
\* place, and only a click on Save adds one.
C5_StoreOnlyGrowsBySave ==
    [][/\ \A p \in Paths :
             /\ Len(store'[p]) >= Len(store[p])
             /\ SubSeq(store'[p], 1, Len(store[p])) = store[p]
       /\ store' # store => lastEvent'.kind = "save"]_vars

\* A note was loaded with two notes stored and a quiz generated earlier.
C5_Witness ==
    /\ lastEvent.kind = "load"
    /\ clicked # NoNote
    /\ TotalNotes(store) = 2
    /\ session_state.quiz_result = Placeholder

\* C6: a direct call returns the placeholder, two questions and two flashcards, for
\* every text that is not blank, and a result with an 'error' entry and no quiz
\* for every blank text.
C6_GenerateFixedOrError ==
    lastEvent.kind = "call" =>
        IF AllSpace(lastEvent.text)
        THEN /\ "error" \in DOMAIN session_state.quiz_result
             /\ "quiz" \notin DOMAIN session_state.quiz_result
        ELSE /\ session_state.quiz_result = Placeholder
             /\ Len(session_state.quiz_result.quiz) = 2
             /\ Len(session_state.quiz_result.flashcards) = 2

\* The function was called with a padded text and returned the placeholder.
C6_Witness ==
    /\ lastEvent.kind = "call"
    /\ lastEvent.text = <<" ", "a", "\n">>
    /\ session_state.quiz_result = Placeholder

\* The function was called with a blank text and returned the error indicator.
C6_WitnessBlank ==
    /\ lastEvent.kind = "call"
    /\ lastEvent.text = <<" ", "\n">>
    /\ session_state.quiz_result = GenError

\* C7: once token verification has raised, the failure is reported, the session is
\* halted, main() never runs and nothing is saved, fetched, loaded or generated;
\* without a token the session runs under the default user id.
C7_AuthFailureHalts ==
    /\ [](MsgAuthFailed \in bootMsgs =>
            /\ phase = "halted"
            /\ ~pageRendered
            /\ session_state = NoSession
            /\ ~fetchOk /\ notes_list = <<>> /\ rendered = <<>>
            /\ clicked = NoNote
            /\ messages = {})
    /\ [](phase = "halted" => MsgAuthFailed \in bootMsgs)
    /\ []((phase # "boot" /\ token = NoToken) =>
            /\ phase = "running"
            /\ USER_ID = DefaultUser
            /\ pageRendered)
    /\ [][(MsgAuthFailed \in bootMsgs') => (store' = store)]_vars

\* A halted session re-ran while the store held notes of an earlier process.
C7_Witness ==
    /\ phase = "halted"
    /\ lastEvent.kind = "refresh"
    /\ TotalNotes(store) > 0

\* C8 as stated: a store initialization failure never leaves the session halted.
C8_StoreFailureNeverHalts == (phase # "boot" /\ ~db) => phase = "running"

\* C8, amended: with db None the failure is reported and the session runs unless the
\* authentication failed, as it does whenever a token is configured and the app was
\* not initialised; in the running session no step changes the store, every click
\* on Save shows the save error, every run shows the retrieval error, no exception
\* leaves main(), and a click on Generate with text that is not blank still yields
\* the placeholder.
C8_StoreUnavailable ==
    /\ []((phase # "boot" /\ ~db) =>
            /\ MsgFirebase \in bootMsgs
            /\ phase = "halted" <=> MsgAuthFailed \in bootMsgs
            /\ (token # NoToken /\ ~app) => phase = "halted")
    /\ []((phase = "running" /\ ~db) =>
            /\ ~escaped
            /\ MsgRetrieveError \in messages
            /\ ~fetchOk
            /\ lastEvent.kind = "save" => MsgCannotSave \in messages
            /\ (lastEvent.kind = "generate" /\ ~AllSpace(session_state.notes_input)) =>
                  /\ session_state.quiz_result = Placeholder
                  /\ session_state.active_tab = TabQuiz)
    /\ [][(phase' = "running" /\ ~db') => store' = store]_vars

\* With db None a text that is not blank was submitted after a quiz was generated.
C8_Witness ==
    /\ phase = "running"
    /\ ~db
    /\ lastEvent.kind = "save"
    /\ session_state.notes_input = Long
    /\ MsgCannotSave \in messages
    /\ session_state.quiz_result = Placeholder

\* C9: a Load button that returns True is the button the user clicked, of a note
\* listed on the page; the action puts that note's content into notes_input, makes
\* "Notes & Input" the active tab, leaves the store and quiz_result alone and runs
\* the script a second time.  A save accepted straight after it stores a record
\* with the loaded note's content and title.
C9_LoadThenSave ==
    /\ [][(lastEvent'.kind = "load" /\ clicked' # NoNote) =>
            /\ \E i \in DOMAIN rendered :
                  rendered[i] = clicked' /\ WidgetKey(rendered[i]) = lastEvent'.key
            /\ session_state'.notes_input = clicked'.content
            /\ session_state'.active_tab = TabNotes
            /\ session_state'.quiz_result = session_state.quiz_result
            /\ store' = store
            /\ runs' = 2]_vars
    /\ [][(lastEvent.kind = "load" /\ clicked # NoNote
             /\ lastEvent'.kind = "save" /\ MsgSaved \in messages') =>
            /\ Len(MyNotesNext) = Len(MyNotes) + 1
            /\ MyNotesNext[Len(MyNotesNext)].content = clicked.content
            /\ MyNotesNext[Len(MyNotesNext)].title = clicked.title]_vars

\* The 51-character note was loaded (only Load leaves it unpadded in notes_input)
\* and saved again: the collection holds it twice, content and title alike.
C9_Witness ==
    /\ lastEvent.kind = "save"
    /\ MsgSaved \in messages
    /\ session_state.notes_input = Strip(Long)
    /\ Len(MyNotes) = 2
    /\ MyNotes[1].content = Strip(Long)
    /\ MyNotes[2].content = MyNotes[1].content
    /\ MyNotes[2].title = MyNotes[1].title

\* C10: whenever the query returns, the listed notes have pairwise distinct widget
\* keys and every one of them is rendered, with no retrieval error.
C10_ListRenderedInFull ==
    (phase = "running" /\ fetchOk) =>
        /\ \A i, j \in DOMAIN notes_list :
              i # j => WidgetKey(notes_list[i]) # WidgetKey(notes_list[j])
        /\ rendered = notes_list
        /\ MsgRetrieveError \notin messages

=============================================================================
